---- MODULE Spec2Model ----
(***************************************************************************)
(* A model of piwikapi/tracking.py: the PiwikTracker class.                *)
(*                                                                         *)
(* The state is one tracker instance (`self`, a record of the instance's   *)
(* attributes), the outcome of the most recent method call (`last`) and    *)
(* the rand entry of the mapping the call before it built (`prev_rand`).   *)
(* Every public method is one action.  A Python exception is an outcome    *)
(* of the call: the action records the exception class in last.raised     *)
(* and keeps the attribute writes made before the raise.                   *)
(*                                                                         *)
(* The methods are modelled as written, line by line.  The dict display   *)
(* of set_attribution_info (lines 336-341) is written with = where Python  *)
(* wants : and is read as the dict it spells; attribution_info is empty in *)
(* every specification below.                                              *)
(*                                                                         *)
(* Encoding of Python values:                                              *)
(*   None is <<>> and a value v held where None is possible is <<v>>;      *)
(*   str is a TLA+ string, int an integer, bool a BOOLEAN (the default     *)
(*   False of an amount argument is 0, which it equals in Python);         *)
(*   a dict read by key only is a function; ecommerce_items, whose         *)
(*   values() order is observable, is a sequence of <<key, value>> pairs   *)
(*   in insertion order; a tuple or list is a sequence.                    *)
(***************************************************************************)
EXTENDS Integers, Sequences, FiniteSets, TLC

VARIABLES self, last, prev_rand

vars == <<self, last, prev_rand>>

-----------------------------------------------------------------------------
(* Python values *)

None == <<>>

Some(v) == <<v>>

NoExc == "none"

EmptyDict == [k \in {} |-> k]

\* d[k] = v on a dict: a later write to a key replaces the earlier one.
Put(d, k, v) == [x \in (DOMAIN d) \cup {k} |-> IF x = k THEN v ELSE d[x]]

\* The result of evaluating an expression or a call: raised is the exception
\* class that left it (NoExc when it returned), value what it returned.
Return(v) == [raised |-> NoExc, value |-> v]

Raise(e) == [raised |-> e, value |-> None]

\* Truth value of an int: `if x:`.
TruthyInt(x) == x # 0

-----------------------------------------------------------------------------
(* Class constants *)

VERSION == 1

LENGTH_VISITOR_ID == 16

\* A variant of KNOWN_PLUGINS that maps flash to its own name.
KNOWN_PLUGINS_FLASH_BY_NAME ==
    [flash |-> "flash", java |-> "java", director |-> "dir",
     quick_time |-> "qt", real_player |-> "realp", pdf |-> "pdf",
     windows_media |-> "wma", gears |-> "gears", silverlight |-> "ag"]

KNOWN_PLUGINS ==
    [flash |-> "fla", java |-> "java", director |-> "dir", quick_time |-> "qt",
     real_player |-> "realp", pdf |-> "pdf", windows_media |-> "wma",
     gears |-> "gears", silverlight |-> "ag"]

RAND_MAX == 99999

-----------------------------------------------------------------------------
(* Bounds and input sets *)

\* random.randint(0, RAND_MAX) is sampled at 0 .. NumRand-1 and at RAND_MAX.
NumRand == 1

\* The most custom dimensions a tracker is given.
MaxDimensions == 1

\* The most keyword arguments one set_plugins call is given.
MaxPluginArgs == 2

SiteIds == {1, 2}

ApiUrls == {"http://piwik.example/piwik.php"}

Urls == {"http://example.com"}

Referers == {"http://referer.example"}

\* set_dimension(name, value) inputs.  A dict takes any key: next to an
\* ordinary dimension name the set holds names that are also keys written by
\* _get_request, each with a value of the type _get_request writes there.
DimEntries ==
    {<<"dimension1", "blue">>, <<"rand", 100000>>,
     <<"cid", "ffffffffffffffff">>, <<"uid", "dimension-user">>,
     <<"send_image", "yes">>, <<"revenue", 7>>}

\* set_visitor_id inputs: lengths 16, 15 and 17.
VisitorIds == {"0123456789abcdef", "0123456789abcde", "0123456789abcdef0"}

\* md5(...).hexdigest() results: 32 hexadecimal characters.
HexDigests == {"d41d8cd98f00b204e9800998ecf8427e"}

\* HTTP status codes the collector may answer with.
StatusCodes == {200, 204, 404}

-----------------------------------------------------------------------------
(* __init__ *)

\* The instance after PiwikTracker(id_site).  Neither the class body nor
\* __init__ binds `referer`: has_referer tells whether the instance has the
\* attribute, which only set_url_referer creates.  The same holds of
\* ecommerce_last_order_timestamp, which is only ever written.
PiwikTracker(id_site) ==
    [action_name |-> None,
     ecommerce_items |-> <<>>,
     id_site |-> id_site,
     api_url |-> None,
     request_cookies |-> None,
     user_agent |-> None,
     accept_language |-> None,
     ip |-> None,
     token_auth |-> None,
     forced_datetime |-> None,
     local_time |-> None,
     page_url |-> None,
     cookie_support |-> TRUE,
     has_cookies |-> FALSE,
     width |-> None,
     height |-> None,
     visitor_id |-> None,
     event_custom_var |-> EmptyDict,
     page_custom_var |-> EmptyDict,
     visitor_custom_var |-> EmptyDict,
     event_tracking |-> EmptyDict,
     dimensions |-> EmptyDict,
     plugins |-> EmptyDict,
     attribution_info |-> EmptyDict,
     user_id |-> None,
     send_image |-> FALSE,
     id_goal |-> None,
     revenue |-> None,
     debug |-> FALSE,
     ssl_verify |-> TRUE,
     has_referer |-> FALSE,
     referer |-> None,
     ecommerce_last_order_timestamp |-> None]

\* The record of a call: the method, its arguments, the exception it raised,
\* the mapping _get_request returned during it (None when _get_request was
\* not reached or raised), the HTTP request it issued (None when none was
\* issued), the response the collector gave to it (None when none was
\* issued) and the value it returned (None when it raised).
Call(op, args, raised, query_vars, request, ret) ==
    [op |-> op, args |-> args, raised |-> raised, query_vars |-> query_vars,
     request |-> request, response |-> None, ret |-> ret]

\* A setter that returned True.
Returned(op, args) == Call(op, args, NoExc, None, None, Some(TRUE))

\* A setter that raised before building anything.
Failed(op, args, exc) == Call(op, args, exc, None, None, None)

\* The rand entry of the mapping the call recorded in `last` built.
RandOfLast ==
    IF last.query_vars # None THEN Some(last.query_vars[1]["rand"]) ELSE None

Init ==
    /\ \E id \in SiteIds : self = PiwikTracker(id)
    /\ last = Call("__init__", <<>>, NoExc, None, None, None)
    /\ prev_rand = None

-----------------------------------------------------------------------------
(* Helpers of the standard library *)

\* random.randint(0, 99999), sampled.
RandVals == (0 .. (NumRand - 1)) \cup {RAND_MAX}

\* json.dumps of a dict keyed by int: the keys become their decimal text,
\* the tuples become arrays.  A JSON text is kept as its document.
JsonDumpsDict(d) ==
    [json |-> [s \in {ToString(i) : i \in DOMAIN d} |->
                  d[CHOOSE i \in DOMAIN d : ToString(i) = s]]]

\* json.dumps of a list of tuples: an array of arrays.
JsonDumpsList(items) == [json |-> items]

\* json.dumps of a list of str, as text: ["a", "b"].
RECURSIVE JsonJoin(_, _)
JsonJoin(list, i) ==
    IF i > Len(list) THEN ""
    ELSE (IF i > 1 THEN ", " ELSE "") \o "\"" \o list[i] \o "\""
         \o JsonJoin(list, i + 1)

JsonDumpsStrList(list) == "[" \o JsonJoin(list, 1) \o "]"

\* u"%dx%d" % (width, height)
FormatRes(width, height) == ToString(width) \o "x" \o ToString(height)

\* to_string(user_id) of pycompat: the text of a str or of an int.  A user id
\* is kept with its type, <<"str", s>> or <<"int", n>>.
ToStringPy(user_id) ==
    IF user_id[1] = "int" THEN ToString(user_id[2]) ELSE user_id[2]

\* math.floor(datetime.timestamp()): a datetime is kept as its whole seconds
\* since the epoch and its microseconds, [sec |-> .., usec |-> ..].
FloorTimestamp(dt) == dt.sec

\* url += u"&%s" % urlencode(args), where url is what _get_request returned:
\* a dict, which has no += with a str.  The statement raises TypeError and
\* binds nothing.
IAdd(url, args) == Raise("TypeError")

\* An insertion-ordered dict as a sequence of <<key, value>> pairs.
DictHas(d, k) == \E i \in 1 .. Len(d) : d[i][1] = k

\* d[k] = v: an existing key keeps its place, a new key goes last.
DictSet(d, k, v) ==
    IF DictHas(d, k)
    THEN [i \in 1 .. Len(d) |-> IF d[i][1] = k THEN <<k, v>> ELSE d[i]]
    ELSE Append(d, <<k, v>>)

\* list(d.values())
DictValues(d) == [i \in 1 .. Len(d) |-> d[i][2]]

-----------------------------------------------------------------------------
(* _get_request *)

\* A variant of BaseVars that draws rand with random.randint(1, 100000).
BaseVarsRandOffByOne(S, id_site, rand) ==
    [idsite |-> id_site, rec |-> "1", url |-> S.page_url, apiv |-> VERSION,
     rand |-> rand + 1]

\* Lines 392-397: the entries every mapping starts with.
BaseVars(S, id_site, rand) ==
    [idsite |-> id_site, rec |-> "1", url |-> S.page_url, apiv |-> VERSION,
     rand |-> rand]

\* Lines 398-413: referer, action_name, h/m/s, cip, token_auth, cookie, res.
OptionalVars(S, q) ==
    LET q1 == IF S.referer # None THEN Put(q, "referer", S.referer[1]) ELSE q
        q2 == IF S.action_name # None
              THEN Put(q1, "action_name", S.action_name[1]) ELSE q1
        q3 == IF S.local_time # None
              THEN Put(Put(Put(q2, "h", S.local_time[1].hour),
                           "m", S.local_time[1].minute),
                       "s", S.local_time[1].second)
              ELSE q2
        q4 == IF S.ip # None THEN Put(q3, "cip", S.ip[1]) ELSE q3
        q5 == IF S.token_auth # None
              THEN Put(q4, "token_auth", S.token_auth[1]) ELSE q4
        q6 == IF S.has_cookies THEN Put(q5, "cookie", 1) ELSE q5
    IN  IF S.width # None /\ S.height # None
        THEN Put(q6, "res", FormatRes(S.width[1], S.height[1]))
        ELSE q6

\* Lines 414-416: the visitor id under cid and _id.
VisitorVars(S, q) ==
    IF S.visitor_id # None
    THEN Put(Put(q, "cid", S.visitor_id[1]), "_id", S.visitor_id[1])
    ELSE q

\* A variant of lines 417-420 that writes send_image only when the flag is
\* set.
UserVarsImageWhenSet(S, q) ==
    LET q1 == IF S.user_id # None
              THEN Put(q, "uid", ToStringPy(S.user_id[1])) ELSE q
    IN  IF S.send_image THEN Put(q1, "send_image", "1") ELSE q1

\* Lines 417-420: uid and send_image.
UserVars(S, q) ==
    LET q1 == IF S.user_id # None
              THEN Put(q, "uid", ToStringPy(S.user_id[1])) ELSE q
    IN  Put(q1, "send_image", IF S.send_image THEN "1" ELSE "0")

\* Lines 421-429: the three custom variable mappings.  The test of line 421
\* reads the length of page_custom_var.
CustomVars(S, q) ==
    LET q1 == IF DOMAIN S.page_custom_var # {}
              THEN Put(q, "e_cvar", JsonDumpsDict(S.event_custom_var)) ELSE q
        q2 == IF DOMAIN S.page_custom_var # {}
              THEN Put(q1, "cvar", JsonDumpsDict(S.page_custom_var)) ELSE q1
    IN  IF DOMAIN S.visitor_custom_var # {}
        THEN Put(q2, "_cvar", JsonDumpsDict(S.visitor_custom_var))
        ELSE q2

\* Lines 430-434: the stored event.
EventVars(S, q) ==
    IF DOMAIN S.event_tracking # {}
    THEN Put(Put(Put(Put(q, "e_c", S.event_tracking["category"]),
                     "e_a", S.event_tracking["action"]),
                 "e_n", S.event_tracking["name"]),
             "e_v", S.event_tracking["value"])
    ELSE q

\* Lines 435-437: every dimension under its own name, over what is there.
DimensionVars(S, q) ==
    [k \in (DOMAIN q) \cup (DOMAIN S.dimensions) |->
        IF k \in DOMAIN S.dimensions THEN S.dimensions[k] ELSE q[k]]

\* Lines 438-440: every plugin under its short code, over what is there.
PluginVars(S, q) ==
    [k \in (DOMAIN q) \cup (DOMAIN S.plugins) |->
        IF k \in DOMAIN S.plugins THEN S.plugins[k] ELSE q[k]]

\* Lines 441-449: the attribution info.
AttributionVars(S, q) ==
    IF DOMAIN S.attribution_info # {}
    THEN Put(Put(Put(Put(q, "_rcn", S.attribution_info["campaign_name"]),
                     "_rck", S.attribution_info["campaign_keyword"]),
                 "_refts",
                 FloorTimestamp(S.attribution_info["referral_datetime"])),
             "_ref", S.attribution_info["referral_url"])
    ELSE q

\* A variant of GoalVars that writes idgoal only together with a revenue.
GoalVarsOnlyWithRevenue(S, q) ==
    LET q1 == IF S.id_goal # None /\ S.revenue # None
              THEN Put(Put(q, "idgoal", S.id_goal[1]), "revenue", S.revenue[1])
              ELSE q
    IN  IF S.debug = TRUE THEN Put(q1, "debug", "1") ELSE q1

\* Lines 450-455: idgoal, revenue and debug.
GoalVars(S, q) ==
    LET q1 == IF S.id_goal # None
              THEN LET g == Put(q, "idgoal", S.id_goal[1])
                   IN  IF S.revenue # None
                       THEN Put(g, "revenue", S.revenue[1]) ELSE g
              ELSE q
    IN  IF S.debug = TRUE THEN Put(q1, "debug", "1") ELSE q1

\* _get_request(id_site) with random.randint returning rand.  Reading
\* self.referer at line 398 raises AttributeError on an instance that has no
\* such attribute.
GetRequest(S, id_site, rand) ==
    IF ~S.has_referer
    THEN Raise("AttributeError")
    ELSE Return(
           GoalVars(S,
             AttributionVars(S,
               PluginVars(S,
                 DimensionVars(S,
                   EventVars(S,
                     CustomVars(S,
                       UserVars(S,
                         VisitorVars(S,
                           OptionalVars(S,
                             BaseVars(S, id_site, rand)))))))))))

\* What a call that reaches _get_request records as its built mapping.
Built(S, rand) ==
    LET g == GetRequest(S, S.id_site, rand)
    IN  IF g.raised = NoExc THEN Some(g.value) ELSE None

-----------------------------------------------------------------------------
(* _send_request *)

\* _send_request(query_vars) with the collector answering `response`.  The
\* result carries the request handed to the session beside the outcome.
\* A variant of the test of line 746 that takes 200 alone for a success.
StatusOkOnly200(status_code) == status_code = 200

\* Line 746: response.status_code in [200, 204].
StatusOk(status_code) == status_code \in {200, 204}

\* A variant of lines 723-728 that forwards the cookies whether or not
\* cookie support is enabled.
ReqCookiesIgnoringSupport(S) ==
    IF S.request_cookies # None /\ DOMAIN S.request_cookies[1] # {}
    THEN S.request_cookies[1]
    ELSE EmptyDict

\* Lines 718 and 723-728: the cookies handed to the request.
ReqCookies(S) ==
    IF S.cookie_support
       /\ S.request_cookies # None
       /\ DOMAIN S.request_cookies[1] # {}
    THEN S.request_cookies[1]
    ELSE EmptyDict

SendRequest(S, query_vars, response) ==
    IF S.api_url = None
    THEN [raised |-> "ConfigurationError", value |-> None, request |-> None]
    ELSE LET h1 == IF S.user_agent # None
                   THEN Put(EmptyDict, "User-Agent", S.user_agent[1])
                   ELSE EmptyDict
             req_headers ==
                 IF S.accept_language # None
                 THEN Put(h1, "Accept-Language", S.accept_language[1])
                 ELSE h1
             req_cookies == ReqCookies(S)
             req == [method |-> "GET", url |-> S.api_url[1],
                     headers |-> req_headers, cookies |-> req_cookies,
                     params |-> query_vars, verify |-> S.ssl_verify]
             ok == StatusOk(response.status_code)
             err == ~ok
             ret == [body_bytes |-> response.content,
                     body_str |-> response.text,
                     status |-> response.status_code,
                     ok |-> ok, error |-> err]
         IN  [raised |-> NoExc, value |-> Some(ret), request |-> Some(req)]

\* What sess.send(prep) may return: a status code with a body.
Responses ==
    {[status_code |-> c, content |-> "GIF89a", text |-> "GIF89a"] :
        c \in StatusCodes}

\* `return self._send_request(url)` at the end of a tracking method whose
\* url expression evaluated to `url` (a result: raised or returned): what the
\* call leaves in `last`.  The collector answers only a request that is sent.
SendOrPropagate(S, op, args, rand, url) ==
    IF url.raised # NoExc
    THEN last' = Call(op, args, url.raised, Built(S, rand), None, None)
    ELSE \E response \in Responses :
            LET r == SendRequest(S, url.value, response)
            IN  last' = [Call(op, args, r.raised, Built(S, rand),
                              r.request, r.value)
                           EXCEPT !.response =
                               IF r.request # None THEN Some(response)
                               ELSE None]

-----------------------------------------------------------------------------
(* Setters *)

set_api_url ==
    \E api_url \in ApiUrls :
        /\ self' = [self EXCEPT !.api_url = Some(api_url)]
        /\ last' = Returned("set_api_url", <<api_url>>)
        /\ prev_rand' = RandOfLast

set_url ==
    \E url \in Urls :
        /\ self' = [self EXCEPT !.page_url = Some(url)]
        /\ last' = Returned("set_url", <<url>>)
        /\ prev_rand' = RandOfLast

set_url_referer ==
    \E referer \in Referers :
        /\ self' = [self EXCEPT !.referer = Some(referer),
                                !.has_referer = TRUE]
        /\ last' = Returned("set_url_referer", <<referer>>)
        /\ prev_rand' = RandOfLast

set_dimension ==
    \E e \in DimEntries :
        /\ \/ e[1] \in DOMAIN self.dimensions
           \/ Cardinality(DOMAIN self.dimensions) < MaxDimensions
        /\ self' = [self EXCEPT !.dimensions = Put(@, e[1], e[2])]
        /\ last' = Returned("set_dimension", e)
        /\ prev_rand' = RandOfLast

ActionNames == {"Home page"}

\* datetime objects given to set_local_time: their hour, minute and second.
LocalTimes == {[hour |-> 13, minute |-> 5, second |-> 0]}

Ips == {"192.0.2.1"}

TokenAuths == {"0123456789abcdef0123456789abcdef"}

\* (width, height) given to set_resolution: both, or the width alone.
Resolutions == {<<Some(1024), Some(768)>>, <<Some(1024), None>>}

set_action_name ==
    \E action_name \in ActionNames :
        /\ self' = [self EXCEPT !.action_name = Some(action_name)]
        /\ last' = Returned("set_action_name", <<action_name>>)
        /\ prev_rand' = RandOfLast

set_local_time ==
    \E datetime \in LocalTimes :
        /\ self' = [self EXCEPT !.local_time = Some(datetime)]
        /\ last' = Returned("set_local_time", <<datetime>>)
        /\ prev_rand' = RandOfLast

set_ip ==
    \E ip \in Ips :
        /\ self' = [self EXCEPT !.ip = Some(ip)]
        /\ last' = Returned("set_ip", <<ip>>)
        /\ prev_rand' = RandOfLast

set_token_auth ==
    \E token_auth \in TokenAuths :
        /\ self' = [self EXCEPT !.token_auth = Some(token_auth)]
        /\ last' = Returned("set_token_auth", <<token_auth>>)
        /\ prev_rand' = RandOfLast

set_browser_has_cookies ==
    /\ self' = [self EXCEPT !.has_cookies = TRUE]
    /\ last' = Returned("set_browser_has_cookies", <<>>)
    /\ prev_rand' = RandOfLast

set_resolution ==
    \E res \in Resolutions :
        /\ self' = [self EXCEPT !.width = res[1], !.height = res[2]]
        /\ last' = Returned("set_resolution", res)
        /\ prev_rand' = RandOfLast

set_debug ==
    \E should_debug \in BOOLEAN :
        /\ self' = [self EXCEPT !.debug = should_debug]
        /\ last' = Returned("set_debug", <<should_debug>>)
        /\ prev_rand' = RandOfLast

\* set_user_id inputs, each kept with its type: a str, an int and a bool
\* (whose type is not int).
UserIds == {<<"str", "alice">>, <<"int", 42>>, <<"bool", TRUE>>}

\* is_string(user_id) of pycompat.
IsString(user_id) == user_id[1] = "str"

\* A variant of the test of line 267 that accepts a str only.
UserIdAcceptedStrOnly(user_id) == IsString(user_id)

\* The test of line 267, negated: the user id is a str or an int.
UserIdAccepted(user_id) == IsString(user_id) \/ user_id[1] = "int"

set_user_id ==
    \E user_id \in UserIds :
        /\ IF UserIdAccepted(user_id)
           THEN /\ self' = [self EXCEPT !.user_id = Some(user_id)]
                /\ last' = Returned("set_user_id", <<user_id>>)
           ELSE /\ self' = self
                /\ last' = Failed("set_user_id", <<user_id>>,
                                  "InvalidParameter")
        /\ prev_rand' = RandOfLast

set_send_image_response ==
    \E should_send \in BOOLEAN :
        /\ self' = [self EXCEPT !.send_image = should_send]
        /\ last' = Returned("set_send_image_response", <<should_send>>)
        /\ prev_rand' = RandOfLast

UserAgents == {"Mozilla/5.0"}

Languages == {"en-us"}

\* set_request_cookie inputs: None, an empty dict, a dict with a cookie.
CookieBags == {None, Some(EmptyDict), Some([_pk_id |-> "0123456789abcdef"])}

set_user_agent ==
    \E user_agent \in UserAgents :
        /\ self' = [self EXCEPT !.user_agent = Some(user_agent)]
        /\ last' = Returned("set_user_agent", <<user_agent>>)
        /\ prev_rand' = RandOfLast

set_browser_language ==
    \E language \in Languages :
        /\ self' = [self EXCEPT !.accept_language = Some(language)]
        /\ last' = Returned("set_browser_language", <<language>>)
        /\ prev_rand' = RandOfLast

set_request_cookie ==
    \E cookies \in CookieBags :
        /\ self' = [self EXCEPT !.request_cookies = cookies]
        /\ last' = Returned("set_request_cookie", <<cookies>>)
        /\ prev_rand' = RandOfLast

\* disable_cookie_support: logs a warning, then clears the flag.
disable_cookie_support ==
    /\ self' = [self EXCEPT !.cookie_support = FALSE]
    /\ last' = Returned("disable_cookie_support", <<>>)
    /\ prev_rand' = RandOfLast

\* __get_random_string(): the digest of 500 random bytes.
GetRandomString(digest) == digest

\* A variant of build_random_visitor_id that returns the digest whole.
BuildRandomVisitorIdWhole(digest) == GetRandomString(digest)

\* build_random_visitor_id(): the first LENGTH_VISITOR_ID characters.
BuildRandomVisitorId(digest) ==
    SubSeq(GetRandomString(digest), 1, LENGTH_VISITOR_ID)

set_new_visitor_id ==
    \E digest \in HexDigests :
        /\ self' = [self EXCEPT !.visitor_id =
                        Some(BuildRandomVisitorId(digest))]
        /\ last' = Returned("set_new_visitor_id", <<>>)
        /\ prev_rand' = RandOfLast

\* A variant of the test of line 249 that only refuses longer ids.
VisitorIdAcceptedUpTo(visitor_id) == Len(visitor_id) <= LENGTH_VISITOR_ID

\* The test of line 249.
VisitorIdAccepted(visitor_id) == Len(visitor_id) = LENGTH_VISITOR_ID

set_visitor_id ==
    \E visitor_id \in VisitorIds :
        /\ IF VisitorIdAccepted(visitor_id)
           THEN /\ self' = [self EXCEPT !.visitor_id = Some(visitor_id)]
                /\ last' = Returned("set_visitor_id", <<visitor_id>>)
           ELSE /\ self' = self
                /\ last' = Failed("set_visitor_id", <<visitor_id>>,
                                  "InvalidParameter")
        /\ prev_rand' = RandOfLast

-----------------------------------------------------------------------------
(* Tracking operations *)

\* A variant of execute that empties the item collection once the mapping
\* is built, as the e-commerce calls do.
executeClearingItems ==
    \E rand \in RandVals :
        /\ SendOrPropagate(self, "execute", <<>>, rand,
                           GetRequest(self, self.id_site, rand))
        /\ self' = IF self.has_referer
                   THEN [self EXCEPT !.ecommerce_items = <<>>] ELSE self
        /\ prev_rand' = RandOfLast

execute ==
    \E rand \in RandVals :
        /\ SendOrPropagate(self, "execute", <<>>, rand,
                           GetRequest(self, self.id_site, rand))
        /\ self' = self
        /\ prev_rand' = RandOfLast

ActionTypes == {"download", "link", "click"}

ActionUrls == {"http://example.com/file.zip"}

\* __get_url_track_action
GetUrlTrackAction(S, rand, action_url, action_type) ==
    LET url == GetRequest(S, S.id_site, rand)
    IN  IF url.raised # NoExc
        THEN url
        ELSE IAdd(url.value, Put(EmptyDict, action_type, action_url))

do_track_action ==
    \E action_url \in ActionUrls, action_type \in ActionTypes :
        /\ IF action_type \notin {"download", "link"}
           THEN last' = Failed("do_track_action",
                               <<action_url, action_type>>,
                               "InvalidParameter")
           ELSE \E rand \in RandVals :
                   SendOrPropagate(
                     self, "do_track_action", <<action_url, action_type>>,
                     rand,
                     GetUrlTrackAction(self, rand, action_url, action_type))
        /\ self' = self
        /\ prev_rand' = RandOfLast

Searches == {"shoes"}

\* (search_cat, search_count) as given: None, or a category / a count.
SearchOptions == {<<None, None>>, <<Some("men"), None>>, <<None, Some(0)>>}

\* __get_url_track_site_search: the first += raises before the optional
\* arguments are looked at.
GetUrlTrackSiteSearch(S, rand, search, search_cat, search_count) ==
    LET url == GetRequest(S, S.id_site, rand)
    IN  IF url.raised # NoExc
        THEN url
        ELSE IAdd(url.value, Put(EmptyDict, "search", search))

do_track_site_search ==
    \E search \in Searches, options \in SearchOptions, rand \in RandVals :
        /\ SendOrPropagate(
             self, "do_track_site_search",
             <<search, options[1], options[2]>>, rand,
             GetUrlTrackSiteSearch(self, rand, search, options[1],
                                   options[2]))
        /\ self' = self
        /\ prev_rand' = RandOfLast

ContentNames == {"Ad Foo Bar"}

\* (content_piece, content_target, content_interaction) as given: all left
\* at the default None, or all given.
ContentOptions ==
    {<<None, None, None>>,
     <<Some("banner.png"), Some("http://example.com/landing"),
       Some("click")>>}

\* (category, action, name, value) of an event: with a name and a value, and
\* with an empty name and the value 0.
Events == {<<"Videos", "Play", "Intro", 10>>, <<"Videos", "Play", "", 0>>}

set_event_tracking ==
    \E ev \in Events :
        /\ self' = [self EXCEPT !.event_tracking =
                        [category |-> ev[1], action |-> ev[2],
                         name |-> ev[3], value |-> ev[4]]]
        /\ last' = Returned("set_event_tracking", ev)
        /\ prev_rand' = RandOfLast

\* __get_url_track_event: the += of line 496 raises before the name and the
\* value are looked at.
GetUrlTrackEvent(S, rand, category, action, name, value) ==
    LET url == GetRequest(S, S.id_site, rand)
    IN  IF url.raised # NoExc
        THEN url
        ELSE IAdd(url.value, Put(EmptyDict, "e_c", category))

\* A call of __get_url_track_event with bound arguments.  The class calls
\* the method from do_track_content only, which never reaches it; it is
\* called here as _PiwikTracker__get_url_track_event.  It returns the url
\* and sends nothing.
get_url_track_event ==
    \E ev \in Events, rand \in RandVals :
        LET url == GetUrlTrackEvent(self, rand, ev[1], ev[2], ev[3], ev[4])
        IN  /\ last' = Call("__get_url_track_event", ev, url.raised,
                            Built(self, rand), None,
                            IF url.raised = NoExc
                            THEN Some(url.value) ELSE None)
            /\ self' = self
            /\ prev_rand' = RandOfLast

\* do_track_content: line 703 evaluates the names category, action, name and
\* value, none of which is bound in the method or the module: NameError,
\* before _get_request or _send_request is reached.
do_track_content ==
    \E content_name \in ContentNames, options \in ContentOptions :
        /\ last' = Failed("do_track_content",
                          <<content_name, options[1], options[2], options[3]>>,
                          "NameError")
        /\ self' = self
        /\ prev_rand' = RandOfLast

-----------------------------------------------------------------------------
(* E-commerce *)

\* add_ecommerce_item inputs: (sku, name, category, price, quantity).
EcItems ==
    {<<"SKU1", "Widget", "Widgets", 80, 1>>,
     <<"SKU1", "Widget", "Widgets", 80, 2>>,
     <<"SKU2", "Gadget", "Gadgets", 20, 1>>}

OrderIds == {"ORDER1"}

GrandTotals == {100}

\* (sub_total, tax, shipping, discount) of an order: the sub total alone
\* given, all but the sub total given.
OrderAmounts == {<<80, 0, 0, 0>>, <<0, 19, 5, 10>>}

\* datetime.datetime.now()
Nows == {[sec |-> 1700000000, usec |-> 250000]}

add_ecommerce_item ==
    \E item \in EcItems :
        /\ self' = [self EXCEPT !.ecommerce_items = DictSet(@, item[1], item)]
        /\ last' = Returned("add_ecommerce_item", item)
        /\ prev_rand' = RandOfLast

\* _get_timestamp
GetTimestamp(S, now) ==
    IF S.forced_datetime # None THEN S.forced_datetime[1] ELSE now

\* Lines 933-948 of __get_url_track_ecommerce: the args dict.
EcommerceArgs(S, grand_total, sub_total, tax, shipping, discount) ==
    LET a0 == Put(Put(EmptyDict, "idgoal", 0), "revenue", grand_total)
        a1 == IF TruthyInt(sub_total) THEN Put(a0, "ec_st", sub_total) ELSE a0
        a2 == IF TruthyInt(tax) THEN Put(a1, "ec_tx", tax) ELSE a1
        a3 == IF TruthyInt(shipping) THEN Put(a2, "ec_sh", shipping) ELSE a2
        a4 == IF TruthyInt(discount) THEN Put(a3, "ec_dt", discount) ELSE a3
    IN  IF Len(S.ecommerce_items) > 0
        THEN Put(a4, "ec_items",
                 JsonDumpsList(DictValues(S.ecommerce_items)))
        ELSE a4

\* __get_url_track_ecommerce.  The items are cleared at line 949, before the
\* += of line 950: the result carries the instance as the method leaves it.
GetUrlTrackEcommerce(S, rand, grand_total, sub_total, tax, shipping, discount) ==
    LET url == GetRequest(S, S.id_site, rand)
        args == EcommerceArgs(S, grand_total, sub_total, tax, shipping,
                              discount)
        cleared == [S EXCEPT !.ecommerce_items = <<>>]
        sum == IAdd(url.value, args)
    IN  IF url.raised # NoExc
        THEN [raised |-> url.raised, value |-> None, self |-> S]
        ELSE [raised |-> sum.raised, value |-> sum.value, self |-> cleared]

\* __get_url_track_ecommerce_order
GetUrlTrackEcommerceOrder(S, rand, now, order_id, grand_total, sub_total, tax, shipping, discount) ==
    LET e == GetUrlTrackEcommerce(S, rand, grand_total, sub_total, tax,
                                  shipping, discount)
        sum == IAdd(e.value, Put(EmptyDict, "ec_id", order_id))
    IN  IF e.raised # NoExc
        THEN e
        ELSE IF sum.raised # NoExc
        THEN [raised |-> sum.raised, value |-> None, self |-> e.self]
        ELSE [raised |-> NoExc, value |-> sum.value,
              self |-> [e.self EXCEPT !.ecommerce_last_order_timestamp =
                                          Some(GetTimestamp(e.self, now))]]

\* __get_url_track_ecommerce_cart_update
GetUrlTrackEcommerceCartUpdate(S, rand, grand_total) ==
    GetUrlTrackEcommerce(S, rand, grand_total, 0, 0, 0, 0)

do_track_ecommerce_cart_update ==
    \E grand_total \in GrandTotals, rand \in RandVals :
        LET url == GetUrlTrackEcommerceCartUpdate(self, rand, grand_total)
        IN  /\ self' = url.self
            /\ SendOrPropagate(self, "do_track_ecommerce_cart_update",
                               <<grand_total>>, rand, url)
            /\ prev_rand' = RandOfLast

do_track_ecommerce_order ==
    \E order_id \in OrderIds, grand_total \in GrandTotals,
       amounts \in OrderAmounts, rand \in RandVals, now \in Nows :
        LET sub_total == amounts[1]
            tax == amounts[2]
            shipping == amounts[3]
            discount == amounts[4]
            url == GetUrlTrackEcommerceOrder(self, rand, now, order_id,
                                             grand_total, sub_total, tax,
                                             shipping, discount)
        IN  /\ self' = url.self
            /\ SendOrPropagate(
                 self, "do_track_ecommerce_order",
                 <<order_id, grand_total, sub_total, tax, shipping,
                   discount>>,
                 rand, url)
            /\ prev_rand' = RandOfLast

-----------------------------------------------------------------------------
(* Plugins *)

\* Keyword names given to set_plugins: two known plugins and an unknown one.
PluginNames == {"flash", "java", "acrobat"}

PluginVersions == {1, 6}

\* The keyword arguments of one call: distinct names, in the order given.
PluginKwargs ==
    UNION {
      {kw \in [1 .. n -> PluginNames \X PluginVersions] :
          \A i, j \in 1 .. n : i # j => kw[i][1] # kw[j][1]}
      : n \in 0 .. MaxPluginArgs}

\* int(version) of an int.
IntOf(version) == version

\* One pass of the loop of lines 822-829 on kwargs[i]: an unknown name
\* raises, a known one is stored before the next name is looked at.
RECURSIVE SetPluginsLoop(_, _, _)
SetPluginsLoop(plugins, kwargs, i) ==
    IF i > Len(kwargs)
    THEN [raised |-> NoExc, plugins |-> plugins]
    ELSE IF kwargs[i][1] \notin DOMAIN KNOWN_PLUGINS
    THEN [raised |-> "ConfigurationError", plugins |-> plugins]
    ELSE SetPluginsLoop(
           Put(plugins, KNOWN_PLUGINS[kwargs[i][1]], IntOf(kwargs[i][2])),
           kwargs, i + 1)

set_plugins ==
    \E kwargs \in PluginKwargs :
        LET r == SetPluginsLoop(self.plugins, kwargs, 1)
        IN  /\ self' = [self EXCEPT !.plugins = r.plugins]
            /\ last' = IF r.raised = NoExc
                       THEN Returned("set_plugins", kwargs)
                       ELSE Failed("set_plugins", kwargs, r.raised)
            /\ prev_rand' = RandOfLast

-----------------------------------------------------------------------------
(* Custom variables *)

\* Slot ids as given, with their type: two ints and a str.
CvarIds == {<<"int", 1>>, <<"int", 2>>, <<"str", "1">>}

CvarPairs == {<<"color", "red">>, <<"size", "xl">>}

\* Scopes as given: the three of the documentation and another.
CvarScopes == {"visit", "page", "event", "site"}

\* A variant of set_custom_variable that starts the page mapping afresh on
\* every write.
SetCustomVariableAfresh(S, id, name, value, scope) ==
    IF id[1] # "int"
    THEN [raised |-> "InvalidParameter", self |-> S]
    ELSE IF scope = "page"
    THEN [raised |-> NoExc,
          self |-> [S EXCEPT !.page_custom_var =
                                 Put(EmptyDict, id[2], <<name, value>>)]]
    ELSE [raised |-> "NameError", self |-> S]

\* set_custom_variable.  A scope other than page reaches line 786, which
\* reads the name scopr, bound nowhere: NameError, with nothing written.
SetCustomVariable(S, id, name, value, scope) ==
    IF id[1] # "int"
    THEN [raised |-> "InvalidParameter", self |-> S]
    ELSE IF scope = "page"
    THEN [raised |-> NoExc,
          self |-> [S EXCEPT !.page_custom_var =
                                 Put(@, id[2], <<name, value>>)]]
    ELSE [raised |-> "NameError", self |-> S]

set_custom_variable ==
    \E id \in CvarIds, pair \in CvarPairs, scope \in CvarScopes :
        LET r == SetCustomVariable(self, id, pair[1], pair[2], scope)
            args == <<id, pair[1], pair[2], scope>>
        IN  /\ self' = r.self
            /\ last' = IF r.raised = NoExc
                       THEN Returned("set_custom_variable", args)
                       ELSE Failed("set_custom_variable", args, r.raised)
            /\ prev_rand' = RandOfLast

\* get_custom_variable: the pair at the slot of the scope's mapping, None
\* when the mapping has no such key (a str id is never a key).
GetCustomVariable(S, id, scope) ==
    IF scope \notin {"visit", "event", "page"}
    THEN Raise("InvalidParameter")
    ELSE LET var_map == CASE scope = "visit" -> S.visitor_custom_var
                          [] scope = "event" -> S.event_custom_var
                          [] scope = "page" -> S.page_custom_var
         IN  IF id[1] = "int" /\ id[2] \in DOMAIN var_map
             THEN Return(var_map[id[2]])
             ELSE Return(None)

get_custom_variable ==
    \E id \in CvarIds, scope \in CvarScopes :
        LET r == GetCustomVariable(self, id, scope)
        IN  /\ last' = Call("get_custom_variable", <<id, scope>>, r.raised,
                            None, None,
                            IF r.raised = NoExc THEN Some(r.value) ELSE None)
            /\ self' = self
            /\ prev_rand' = RandOfLast

-----------------------------------------------------------------------------
(* E-commerce views *)

\* Arguments of set_ecommerce_view, each kept with its type: the default
\* False, a str, a list of str.
ViewSkus == {<<"bool", FALSE>>, <<"str", "SKU1">>}

ViewNames == {<<"bool", FALSE>>, <<"str", "Widget">>}

ViewCategories ==
    {<<"bool", FALSE>>, <<"str", "Widgets">>, <<"list", <<"a", "b">>>>}

\* The price: the default False (0) or a number.
ViewPrices == {0, 80}

\* Truth value of an argument: `if x:`.
Truthy(x) ==
    CASE x[1] = "bool" -> x[2]
      [] x[1] = "str" -> x[2] # ""
      [] x[1] = "list" -> Len(x[2]) > 0

\* Lines 1116-1120: the text stored for the category.
CategoryText(category) ==
    IF Truthy(category)
    THEN IF category[1] = "list"
         THEN JsonDumpsStrList(category[2]) ELSE category[2]
    ELSE ""

\* A variant of set_ecommerce_view that writes slot 5 only when a category
\* is given.
SetEcommerceViewCategoryGiven(S, sku, name, category, price) ==
    LET p5 == IF Truthy(category)
              THEN Put(S.page_custom_var, 5,
                       <<"_pkc", CategoryText(category)>>)
              ELSE S.page_custom_var
        p2 == IF TruthyInt(price) THEN Put(p5, 2, <<"_pkp", price>>) ELSE p5
    IN  [S EXCEPT !.page_custom_var =
            IF Truthy(sku) /\ Truthy(name)
            THEN Put(Put(p2, 3, <<"_pks", sku[2]>>), 4, <<"_pkn", name[2]>>)
            ELSE p2]

\* Lines 1116-1129: the body of set_ecommerce_view.
SetEcommerceView(S, sku, name, category, price) ==
    LET p5 == Put(S.page_custom_var, 5, <<"_pkc", CategoryText(category)>>)
        p2 == IF TruthyInt(price) THEN Put(p5, 2, <<"_pkp", price>>) ELSE p5
    IN  [S EXCEPT !.page_custom_var =
            IF Truthy(sku) /\ Truthy(name)
            THEN Put(Put(p2, 3, <<"_pks", sku[2]>>), 4, <<"_pkn", name[2]>>)
            ELSE p2]

\* set_ecommerce_view has no return statement: it returns None.
set_ecommerce_view ==
    \E sku \in ViewSkus, name \in ViewNames, category \in ViewCategories,
       price \in ViewPrices :
        /\ self' = SetEcommerceView(self, sku, name, category, price)
        /\ last' = Call("set_ecommerce_view", <<sku, name, category, price>>,
                        NoExc, None, None, Some(None))
        /\ prev_rand' = RandOfLast

-----------------------------------------------------------------------------
(* Goals *)

GoalIds == {1, 2}

\* The revenue argument: left at its default None, or given.
Revenues == {None, Some(50)}

\* A variant of set_track_goal that stores the revenue argument as given,
\* None included.
set_track_goal_storing_none ==
    \E id_goal \in GoalIds, revenue \in Revenues :
        /\ self' = [self EXCEPT !.id_goal = Some(id_goal),
                                !.revenue = revenue]
        /\ last' = Returned("set_track_goal", <<id_goal, revenue>>)
        /\ prev_rand' = RandOfLast

\* set_track_goal: the goal id is stored always, the revenue only when one
\* is given; a revenue stored by an earlier call stays otherwise.
set_track_goal ==
    \E id_goal \in GoalIds, revenue \in Revenues :
        /\ self' = [self EXCEPT !.id_goal = Some(id_goal),
                                !.revenue = IF revenue # None
                                            THEN revenue ELSE @]
        /\ last' = Returned("set_track_goal", <<id_goal, revenue>>)
        /\ prev_rand' = RandOfLast

-----------------------------------------------------------------------------
(* Specifications *)

\* The page, the visitor identity, the dimensions and every tracking call.
Next ==
    \/ set_api_url
    \/ set_url
    \/ set_url_referer
    \/ set_dimension
    \/ set_visitor_id
    \/ set_new_visitor_id
    \/ execute
    \/ do_track_action
    \/ do_track_site_search
    \/ do_track_content
    \/ do_track_ecommerce_order
    \/ do_track_ecommerce_cart_update

Spec == Init /\ [][Next]_vars

\* The e-commerce items and the calls that send them.
NextEcommerce ==
    \/ set_api_url
    \/ set_url_referer
    \/ add_ecommerce_item
    \/ do_track_ecommerce_order
    \/ do_track_ecommerce_cart_update
    \/ execute

SpecEcommerce == Init /\ [][NextEcommerce]_vars

\* The plugin mapping.
NextPlugins ==
    \/ set_api_url
    \/ set_url_referer
    \/ set_plugins
    \/ execute

SpecPlugins == Init /\ [][NextPlugins]_vars

\* The custom variables.
NextCustomVars ==
    \/ set_api_url
    \/ set_url_referer
    \/ set_custom_variable
    \/ execute

SpecCustomVars == Init /\ [][NextCustomVars]_vars

\* Every tracking call, with the items the e-commerce calls clear.
NextTracking ==
    \/ set_api_url
    \/ set_url_referer
    \/ add_ecommerce_item
    \/ execute
    \/ do_track_action
    \/ do_track_site_search
    \/ do_track_content
    \/ do_track_ecommerce_order
    \/ do_track_ecommerce_cart_update

SpecTracking == Init /\ [][NextTracking]_vars

\* The goal conversion.
NextGoal ==
    \/ set_api_url
    \/ set_url_referer
    \/ set_dimension
    \/ set_track_goal
    \/ execute

SpecGoal == Init /\ [][NextGoal]_vars

\* Goals and the e-commerce calls.
NextGoalEcommerce ==
    \/ set_api_url
    \/ set_url_referer
    \/ set_track_goal
    \/ add_ecommerce_item
    \/ do_track_ecommerce_order
    \/ do_track_ecommerce_cart_update
    \/ execute

SpecGoalEcommerce == Init /\ [][NextGoalEcommerce]_vars

\* The page-scope custom variables and the product view written to them.
NextView ==
    \/ set_custom_variable
    \/ set_ecommerce_view

SpecView == Init /\ [][NextView]_vars

\* The headers and the cookies of the request.
NextHeaders ==
    \/ set_api_url
    \/ set_url_referer
    \/ set_user_agent
    \/ set_browser_language
    \/ set_request_cookie
    \/ disable_cookie_support
    \/ execute

SpecHeaders == Init /\ [][NextHeaders]_vars

\* The event.
NextEvent ==
    \/ set_api_url
    \/ set_url_referer
    \/ set_event_tracking
    \/ get_url_track_event
    \/ execute

SpecEvent == Init /\ [][NextEvent]_vars

\* The user id and the send-image flag, with the dimensions.
NextUser ==
    \/ set_api_url
    \/ set_url_referer
    \/ set_user_id
    \/ set_send_image_response
    \/ set_dimension
    \/ execute

SpecUser == Init /\ [][NextUser]_vars

\* The optional keys of the mapping.
NextOptional ==
    \/ set_url_referer
    \/ set_action_name
    \/ set_local_time
    \/ set_ip
    \/ set_token_auth
    \/ set_browser_has_cookies
    \/ set_resolution
    \/ set_debug
    \/ execute

SpecOptional == Init /\ [][NextOptional]_vars

\* The custom variable slots, written and read.
NextSlots ==
    \/ set_custom_variable
    \/ get_custom_variable

SpecSlots == Init /\ [][NextSlots]_vars

-----------------------------------------------------------------------------
(* Properties *)

\* The mapping the last call built, where it built one.
Q == last.query_vars[1]

BaseKeys == {"idsite", "rec", "url", "apiv", "rand"}

TrackingOps ==
    {"execute", "do_track_action", "do_track_site_search",
     "do_track_content", "do_track_ecommerce_order",
     "do_track_ecommerce_cart_update"}

EcommerceOps == {"do_track_ecommerce_order", "do_track_ecommerce_cart_update"}

\* The tracker is set up for tracking: the API URL and the referrer are set.
Configured(S) == S.api_url # None /\ S.has_referer

\* C1: on a configured tracker, every e-commerce tracking call issues a
\* request, leaves the item collection empty, and its request carries
\* ec_items exactly when items had been added since the call before.
C1_EcommerceRequestThenEmpty ==
    [][(last'.op \in EcommerceOps /\ Configured(self))
         => /\ last'.request # None
            /\ self'.ecommerce_items = <<>>
            /\ ("ec_items" \in DOMAIN last'.request[1].params)
                 <=> (Len(self.ecommerce_items) > 0)]_vars

\* The five base entries of a built mapping q on tracker S.
BaseEntriesHold(S, q) ==
    /\ BaseKeys \subseteq DOMAIN q
    /\ q["idsite"] = S.id_site
    /\ q["rec"] = "1"
    /\ q["url"] = S.page_url
    /\ q["apiv"] = 1
    /\ q["rand"] \in 0 .. 99999

\* C2 as stated: after any sequence of setter calls, every mapping a tracking
\* operation builds carries idsite = the site id, rec = "1", url = the page
\* URL, apiv = 1 and rand in 0..99999.
C2_BaseEntriesAlways == last.query_vars # None => BaseEntriesHold(self, Q)

\* C2 as amended: the same, for every sequence of setter calls that sets no
\* custom dimension named after one of the five base keys.
C2_BaseEntriesUnlessDimension ==
    (last.query_vars # None /\ (DOMAIN self.dimensions) \cap BaseKeys = {})
        => BaseEntriesHold(self, Q)

\* C2's case: after setter calls (a dimension, a visitor id, a page URL) two
\* consecutive calls built mappings on the same context with different rand.
C2_TwoBuildsDifferentRand ==
    /\ last.query_vars # None
    /\ prev_rand # None
    /\ prev_rand[1] # Q["rand"]
    /\ DOMAIN self.dimensions = {"dimension1"}
    /\ self.visitor_id # None
    /\ self.page_url # None
    /\ BaseEntriesHold(self, Q)

\* Only set_url and set_api_url have been called on the tracker, both of them.
OnlyUrlsSet(S) ==
    /\ S.api_url # None
    /\ S.page_url # None
    /\ S = [PiwikTracker(S.id_site) EXCEPT !.api_url = S.api_url,
                                            !.page_url = S.page_url]

\* C3: on a fresh tracker with only the page URL and the API URL set,
\* execute builds a mapping with exactly the keys idsite, rec, url, apiv and
\* rand, holding the site id, "1", the page URL, 1 and a value in 0..99999.
C3_FreshExecuteExactKeys ==
    (last.op = "execute" /\ OnlyUrlsSet(self))
        => /\ last.query_vars # None
           /\ DOMAIN Q = BaseKeys
           /\ BaseEntriesHold(self, Q)

\* The parameters p of an e-commerce request carry idgoal = 0, revenue = the
\* grand total and each amount key exactly when its argument is truthy.
EcommerceParamsHold(p, grand_total, sub_total, tax, shipping, discount) ==
    /\ {"idgoal", "revenue"} \subseteq DOMAIN p
    /\ p["idgoal"] = 0
    /\ p["revenue"] = grand_total
    /\ ("ec_st" \in DOMAIN p) <=> (sub_total # 0)
    /\ ("ec_tx" \in DOMAIN p) <=> (tax # 0)
    /\ ("ec_sh" \in DOMAIN p) <=> (shipping # 0)
    /\ ("ec_dt" \in DOMAIN p) <=> (discount # 0)
    /\ "ec_st" \in DOMAIN p => p["ec_st"] = sub_total
    /\ "ec_tx" \in DOMAIN p => p["ec_tx"] = tax
    /\ "ec_sh" \in DOMAIN p => p["ec_sh"] = shipping
    /\ "ec_dt" \in DOMAIN p => p["ec_dt"] = discount

\* C4: on a configured tracker the request of do_track_ecommerce_order
\* carries idgoal = 0, revenue = grand_total, ec_id = order_id and each of
\* ec_st, ec_tx, ec_sh, ec_dt exactly when its argument is truthy; the
\* request of do_track_ecommerce_cart_update carries idgoal = 0 and
\* revenue = grand_total and none of ec_id, ec_st, ec_tx, ec_sh, ec_dt.
C4_EcommerceRequestParams ==
    /\ (last.op = "do_track_ecommerce_order" /\ Configured(self))
         => /\ last.request # None
            /\ LET p == last.request[1].params
                   a == last.args
               IN  /\ EcommerceParamsHold(p, a[2], a[3], a[4], a[5], a[6])
                   /\ "ec_id" \in DOMAIN p
                   /\ p["ec_id"] = a[1]
    /\ (last.op = "do_track_ecommerce_cart_update" /\ Configured(self))
         => /\ last.request # None
            /\ LET p == last.request[1].params
               IN  /\ EcommerceParamsHold(p, last.args[1], 0, 0, 0, 0)
                   /\ "ec_id" \notin DOMAIN p

\* The keyword arguments name a plugin outside the whitelist.
NamesUnknownPlugin(kwargs) ==
    \E i \in 1 .. Len(kwargs) :
        kwargs[i][1] \notin
            {"flash", "java", "director", "quick_time", "real_player", "pdf",
             "windows_media", "gears", "silverlight"}

\* C5: a set_plugins call that names an unknown plugin, alone or beside
\* known ones, fails with a configuration error and leaves the plugin
\* mapping as it was before the call.
C5_SetPluginsAllOrNothing ==
    [][(last'.op = "set_plugins" /\ NamesUnknownPlugin(last'.args))
         => /\ last'.raised = "ConfigurationError"
            /\ self'.plugins = self.plugins]_vars

\* C6: set_custom_variable with an int slot id fails with an
\* invalid-parameter error, changing none of the three mappings, when the
\* scope is not visit, page or event, and succeeds with each of the three.
C6_SetCustomVariableScope ==
    [][(last'.op = "set_custom_variable" /\ last'.args[1][1] = "int")
         => IF last'.args[4] \notin {"visit", "page", "event"}
            THEN /\ last'.raised = "InvalidParameter"
                 /\ self'.visitor_custom_var = self.visitor_custom_var
                 /\ self'.page_custom_var = self.page_custom_var
                 /\ self'.event_custom_var = self.event_custom_var
            ELSE last'.raised = NoExc]_vars

\* The custom variable mapping of a scope.
CustomVarOf(S, scope) ==
    CASE scope = "visit" -> S.visitor_custom_var
      [] scope = "page" -> S.page_custom_var
      [] scope = "event" -> S.event_custom_var

\* Mapping q carries dict m under key, every pair at its slot, exactly when m
\* is not empty.
CarriesCustomVars(q, key, m) ==
    /\ (key \in DOMAIN q) <=> (DOMAIN m # {})
    /\ key \in DOMAIN q =>
         /\ DOMAIN q[key].json = {ToString(i) : i \in DOMAIN m}
         /\ \A i \in DOMAIN m : q[key].json[ToString(i)] = m[i]

\* C7: a set_custom_variable(id, name, value, scope) call that returns has
\* stored the pair at slot id of that scope, and every built mapping carries
\* each scope's pairs under its own key (_cvar, cvar, e_cvar), the key being
\* present exactly when the mapping of that scope is not empty.
C7_CustomVarsUnderOwnKey ==
    [][/\ (/\ last'.op = "set_custom_variable"
           /\ last'.raised = NoExc
           /\ last'.args[4] \in {"visit", "page", "event"})
          => LET m == CustomVarOf(self', last'.args[4])
                 id == last'.args[1][2]
             IN  /\ id \in DOMAIN m
                 /\ m[id] = <<last'.args[2], last'.args[3]>>
       /\ last'.query_vars # None
          => LET q == last'.query_vars[1]
             IN  /\ CarriesCustomVars(q, "_cvar", self'.visitor_custom_var)
                 /\ CarriesCustomVars(q, "cvar", self'.page_custom_var)
                 /\ CarriesCustomVars(q, "e_cvar", self'.event_custom_var)
      ]_vars

\* What set_visitor_id(v) must do: refuse a length other than 16 and leave
\* the stored id, accept a length of 16 and store v.
SetVisitorIdChecks ==
    last'.op = "set_visitor_id"
        => IF Len(last'.args[1]) # 16
           THEN /\ last'.raised = "InvalidParameter"
                /\ self'.visitor_id = self.visitor_id
           ELSE /\ last'.raised = NoExc
                /\ self'.visitor_id = Some(last'.args[1])

\* The mapping built by the call carries the stored visitor id under cid
\* and _id.
CarriesVisitorId ==
    LET q == last'.query_vars[1]
    IN  /\ {"cid", "_id"} \subseteq DOMAIN q
        /\ q["cid"] = self'.visitor_id[1]
        /\ q["_id"] = self'.visitor_id[1]

\* C8 as stated: set_visitor_id refuses any length but 16, leaving the stored
\* id, and accepts 16; every mapping built while an id is stored carries it
\* under both cid and _id.
C8_VisitorIdRoundTrip ==
    [][/\ SetVisitorIdChecks
       /\ (last'.query_vars # None /\ self'.visitor_id # None)
            => CarriesVisitorId]_vars

\* C8 as amended: the same, the mapping carrying the id under cid and _id
\* unless a custom dimension named cid or _id has been set.
C8_VisitorIdRoundTripUnlessDimension ==
    [][/\ SetVisitorIdChecks
       /\ (/\ last'.query_vars # None
           /\ self'.visitor_id # None
           /\ (DOMAIN self'.dimensions) \cap {"cid", "_id"} = {})
            => CarriesVisitorId]_vars

\* C8's case: a request was sent with a 16-character id set by
\* set_visitor_id, carried under cid and _id.
C8_SentWithExplicitId ==
    /\ last.request # None
    /\ self.visitor_id = Some("0123456789abcdef")
    /\ {"cid", "_id"} \subseteq DOMAIN last.request[1].params
    /\ last.request[1].params["cid"] = "0123456789abcdef"
    /\ last.request[1].params["_id"] = "0123456789abcdef"

\* C9: the stored visitor id is unset or exactly 16 characters long.
C9_VisitorIdLength ==
    self.visitor_id = None \/ Len(self.visitor_id[1]) = 16

\* C9's case: a set_visitor_id call has just failed on a tracker that holds
\* a visitor id.
C9_FailedSetKeepsId ==
    /\ last.op = "set_visitor_id"
    /\ last.raised = "InvalidParameter"
    /\ self.visitor_id # None

\* C10: while the API URL is unset every tracking operation, given valid
\* arguments on a tracker whose referrer is set, fails with a configuration
\* error and issues no HTTP request.
C10_NoApiUrlConfigurationError ==
    (/\ last.op \in TrackingOps
     /\ last.op = "do_track_action" => last.args[2] \in {"download", "link"}
     /\ self.api_url = None
     /\ self.has_referer)
        => /\ last.raised = "ConfigurationError"
           /\ last.request = None

\* C11: whenever a tracking operation got an HTTP response, the call
\* returned (it did not raise) a result whose ok is true exactly when the
\* status code is 200 or 204, whose error is the negation of ok and whose
\* status is the status code of the response.
C11_ResponseClassified ==
    (last.op \in TrackingOps /\ last.response # None)
        => /\ last.raised = NoExc
           /\ last.ret # None
           /\ last.ret[1].ok = (last.response[1].status_code \in {200, 204})
           /\ last.ret[1].error = ~last.ret[1].ok
           /\ last.ret[1].status = last.response[1].status_code

\* C11's case: a tracking operation was answered 204 and returned ok.
C11_AnsweredNoContent ==
    /\ last.op \in TrackingOps
    /\ last.response # None
    /\ last.response[1].status_code = 204
    /\ last.ret # None
    /\ last.ret[1].ok

\* C12: on a configured tracker, do_track_action with an action_type other
\* than download or link fails with an invalid-parameter error, nothing
\* built and nothing sent; with download or link it sends one request whose
\* parameters are the built base mapping plus action_type -> action_url.
C12_TrackActionRequest ==
    (last.op = "do_track_action" /\ Configured(self))
        => IF last.args[2] \notin {"download", "link"}
           THEN /\ last.raised = "InvalidParameter"
                /\ last.query_vars = None
                /\ last.request = None
           ELSE /\ last.raised = NoExc
                /\ last.query_vars # None
                /\ last.request # None
                /\ last.request[1].params = Put(Q, last.args[2], last.args[1])

NonEcommerceOps ==
    {"execute", "do_track_action", "do_track_site_search", "do_track_content"}

\* Two built mappings agree on every key but rand.
SameApartFromRand(q1, q2) ==
    /\ DOMAIN q1 = DOMAIN q2
    /\ \A k \in (DOMAIN q1) \ {"rand"} : q1[k] = q2[k]

\* Tracker S2 differs from S1 in the item collection and the last-order
\* time at most.
SameButItemsAndOrderTime(S1, S2) ==
    S2 = [S1 EXCEPT !.ecommerce_items = S2.ecommerce_items,
                    !.ecommerce_last_order_timestamp =
                        S2.ecommerce_last_order_timestamp]

\* C13: execute, do_track_action, do_track_site_search and do_track_content
\* leave the tracker as it was, and two such calls in a row that both build
\* a mapping build the same one apart from rand; an e-commerce call changes
\* nothing but the item collection and, for an order only, the last-order
\* time.
C13_TrackingFrame ==
    [][/\ last'.op \in NonEcommerceOps => self' = self
       /\ (/\ last.op \in NonEcommerceOps
           /\ last'.op \in NonEcommerceOps
           /\ last.query_vars # None
           /\ last'.query_vars # None)
            => SameApartFromRand(last.query_vars[1], last'.query_vars[1])
       /\ last'.op \in EcommerceOps => SameButItemsAndOrderTime(self, self')
       /\ last'.op = "do_track_ecommerce_cart_update"
            => self'.ecommerce_last_order_timestamp =
                   self.ecommerce_last_order_timestamp
      ]_vars

\* C13's case: execute built a mapping right after another call built one
\* with a different rand, on a tracker that still holds the items added
\* before both (so neither call was an e-commerce call, which empties them).
C13_SecondBuildKeepsItems ==
    /\ last.op = "execute"
    /\ last.query_vars # None
    /\ prev_rand # None
    /\ prev_rand[1] # Q["rand"]
    /\ Len(self.ecommerce_items) = 2

\* set_track_goal only changes the tracker: it builds and sends nothing,
\* stores the goal id, and stores the revenue when one is given.
SetTrackGoalOnlyStores ==
    last'.op = "set_track_goal"
        => /\ last'.query_vars = None
           /\ last'.request = None
           /\ self'.id_goal = Some(last'.args[1])
           /\ self'.revenue
                = IF last'.args[2] # None THEN last'.args[2] ELSE self.revenue

\* Mapping q, built on tracker S that holds a goal id, carries it as idgoal,
\* and carries revenue exactly when S holds a revenue.
CarriesGoal(S, q) ==
    /\ "idgoal" \in DOMAIN q
    /\ q["idgoal"] = S.id_goal[1]
    /\ ("revenue" \in DOMAIN q) <=> (S.revenue # None)

\* C14 as stated: set_track_goal(id_goal, revenue) builds and sends
\* nothing; afterwards every built mapping carries idgoal = the goal id of
\* the context, and revenue exactly when the context holds one; while no
\* goal has been set a built mapping carries neither key.
C14_TrackGoalThenCarried ==
    [][/\ SetTrackGoalOnlyStores
       /\ last'.query_vars # None
            => IF self'.id_goal = None
               THEN {"idgoal", "revenue"} \cap DOMAIN last'.query_vars[1] = {}
               ELSE CarriesGoal(self', last'.query_vars[1])
      ]_vars

\* Mapping q, built on tracker S that holds a goal id, carries it as idgoal,
\* and carries revenue exactly when S holds a revenue or a custom dimension
\* named revenue.
CarriesGoalOrDimension(S, q) ==
    /\ "idgoal" \in DOMAIN q
    /\ q["idgoal"] = S.id_goal[1]
    /\ ("revenue" \in DOMAIN q)
         <=> (S.revenue # None \/ "revenue" \in DOMAIN S.dimensions)

\* C14 as amended: the same, but a custom dimension named revenue is carried
\* as revenue while the context holds no revenue, and while no goal has
\* been set a built mapping carries idgoal or revenue only as a custom
\* dimension of that name.
C14_TrackGoalThenCarriedUnlessDimension ==
    [][/\ SetTrackGoalOnlyStores
       /\ last'.query_vars # None
            => IF self'.id_goal = None
               THEN {"idgoal", "revenue"} \cap DOMAIN last'.query_vars[1]
                        \subseteq DOMAIN self'.dimensions
               ELSE CarriesGoalOrDimension(self', last'.query_vars[1])
      ]_vars

\* C14's case: execute built a mapping carrying idgoal = 2 and no revenue,
\* on a tracker whose goal was set without a revenue.
C14_BuiltWithGoalOnly ==
    /\ last.op = "execute"
    /\ last.query_vars # None
    /\ self.id_goal = Some(2)
    /\ self.revenue = None
    /\ "idgoal" \in DOMAIN Q
    /\ "revenue" \notin DOMAIN Q

\* C15: whenever a tracking operation builds a mapping, the tracker holds a
\* visitor id, generated or explicitly set, and the mapping carries one
\* under cid and _id.
C15_VisitorIdAtSerialization ==
    last.query_vars # None
        => /\ self.visitor_id # None
           /\ {"cid", "_id"} \subseteq DOMAIN Q

\* Slot k holds the same in custom variable mappings m1 and m2.
SlotSame(m1, m2, k) ==
    /\ (k \in DOMAIN m1) <=> (k \in DOMAIN m2)
    /\ (k \in DOMAIN m1 /\ k \in DOMAIN m2) => m1[k] = m2[k]

\* Slot k of mapping m holds the pair.
SlotIs(m, k, pair) == k \in DOMAIN m /\ m[k] = pair

\* The text slot 5 is to hold for a category argument: "" when none is
\* given, the text itself, or the JSON text of a list.
ExpectedCategory(category) ==
    CASE category = <<"bool", FALSE>> -> ""
      [] category = <<"str", "Widgets">> -> "Widgets"
      [] category = <<"list", <<"a", "b">>>> -> "[\"a\", \"b\"]"

\* C16: set_ecommerce_view(sku, name, category, price) builds and sends
\* nothing and changes the page-scope mapping only: slot 5 becomes
\* (_pkc, category text), slot 2 becomes (_pkp, price) when price is truthy
\* and is left otherwise, slots 3 and 4 become (_pks, sku) and (_pkn, name)
\* when both are given and are left otherwise, slot 1 is left.
C16_EcommerceViewSlots ==
    [][last'.op = "set_ecommerce_view"
         => LET sku == last'.args[1]
                name == last'.args[2]
                category == last'.args[3]
                price == last'.args[4]
                old == self.page_custom_var
                new == self'.page_custom_var
            IN  /\ last'.raised = NoExc
                /\ last'.query_vars = None
                /\ last'.request = None
                /\ self' = [self EXCEPT !.page_custom_var = new]
                /\ SlotIs(new, 5, <<"_pkc", ExpectedCategory(category)>>)
                /\ IF price # 0
                   THEN SlotIs(new, 2, <<"_pkp", price>>)
                   ELSE SlotSame(old, new, 2)
                /\ IF sku[1] = "str" /\ name[1] = "str"
                   THEN /\ SlotIs(new, 3, <<"_pks", sku[2]>>)
                        /\ SlotIs(new, 4, <<"_pkn", name[2]>>)
                   ELSE /\ SlotSame(old, new, 3)
                        /\ SlotSame(old, new, 4)
                /\ SlotSame(old, new, 1)
                /\ DOMAIN new \subseteq (DOMAIN old) \cup {2, 3, 4, 5}
      ]_vars

\* C16's case: a view given a sku alone and a list category was set on a
\* tracker whose page-scope slots 1 and 2 hold custom variables: slot 5
\* holds the JSON text, slots 3 and 4 are not written, slots 1 and 2 stay.
C16_CategoryViewKeepsSlots ==
    /\ last.op = "set_ecommerce_view"
    /\ last.args = <<<<"str", "SKU1">>, <<"bool", FALSE>>,
                     <<"list", <<"a", "b">>>>, 0>>
    /\ DOMAIN self.page_custom_var = {1, 2, 5}
    /\ self.page_custom_var[1] = <<"color", "red">>
    /\ self.page_custom_var[2] = <<"size", "xl">>
    /\ self.page_custom_var[5] = <<"_pkc", "[\"a\", \"b\"]">>

\* Header name is in headers h exactly when the override is set, with the
\* override as its value.
HeaderIffSet(h, name, override) ==
    /\ (name \in DOMAIN h) <=> (override # None)
    /\ name \in DOMAIN h => h[name] = override[1]

PutIfGiven(q, key, opt) == IF opt # None THEN Put(q, key, opt[1]) ELSE q

\* C18: on a configured tracker do_track_content(content_name, content_piece,
\* content_target, content_interaction) sends one request whose parameters
\* are the built base mapping plus c_n = content_name and c_p, c_t, c_i each
\* exactly when the piece, the target, the interaction is given.
C18_TrackContentRequest ==
    (last.op = "do_track_content" /\ Configured(self))
        => /\ last.raised = NoExc
           /\ last.query_vars # None
           /\ last.request # None
           /\ last.request[1].params =
                  PutIfGiven(
                    PutIfGiven(
                      PutIfGiven(Put(Q, "c_n", last.args[1]),
                                 "c_p", last.args[2]),
                      "c_t", last.args[3]),
                    "c_i", last.args[4])

EventKeys == {"e_c", "e_a", "e_n", "e_v"}

\* C19: on a tracker whose referrer is set, tracking an event (category,
\* action, name, value) returns the built base mapping plus e_c = category and
\* e_a = action, plus e_n exactly when the name is truthy and e_v exactly when
\* the value is truthy; and every mapping execute builds carries e_c, e_a, e_n
\* and e_v of the event set_event_tracking stored, and none of the four keys
\* while none is stored.
C19_EventParams ==
    /\ (last.op = "__get_url_track_event" /\ self.has_referer)
         => /\ last.raised = NoExc
            /\ last.query_vars # None
            /\ last.ret # None
            /\ LET a == last.args
                   q2 == Put(Put(Q, "e_c", a[1]), "e_a", a[2])
                   q3 == IF a[3] # "" THEN Put(q2, "e_n", a[3]) ELSE q2
                   q4 == IF a[4] # 0 THEN Put(q3, "e_v", a[4]) ELSE q3
               IN  last.ret[1] = q4
    /\ (last.op = "execute" /\ last.query_vars # None)
         => IF DOMAIN self.event_tracking = {}
            THEN EventKeys \cap DOMAIN Q = {}
            ELSE /\ EventKeys \subseteq DOMAIN Q
                 /\ Q["e_c"] = self.event_tracking["category"]
                 /\ Q["e_a"] = self.event_tracking["action"]
                 /\ Q["e_n"] = self.event_tracking["name"]
                 /\ Q["e_v"] = self.event_tracking["value"]

\* C20: on a configured tracker do_track_site_search(search, search_cat,
\* search_count) sends one request whose parameters are the built base
\* mapping plus search, plus search_cat exactly when a category is given,
\* plus search_count exactly when a count is given, the count 0 included.
C20_SiteSearchRequest ==
    (last.op = "do_track_site_search" /\ Configured(self))
        => /\ last.raised = NoExc
           /\ last.query_vars # None
           /\ last.request # None
           /\ last.request[1].params =
                  PutIfGiven(
                    PutIfGiven(Put(Q, "search", last.args[1]),
                               "search_cat", last.args[2]),
                    "search_count", last.args[3])

\* What set_user_id(v) must do: refuse a value that is neither a str nor an
\* int and leave the stored user id, accept a str or an int and store it.
SetUserIdChecks ==
    last'.op = "set_user_id"
        => IF last'.args[1][1] \notin {"str", "int"}
           THEN /\ last'.raised = "InvalidParameter"
                /\ self'.user_id = self.user_id
           ELSE /\ last'.raised = NoExc
                /\ self'.user_id = Some(last'.args[1])

\* The text form of a user id.
UserIdText(user_id) ==
    CASE user_id = <<"str", "alice">> -> "alice"
      [] user_id = <<"int", 42>> -> "42"

\* The mapping built by the call carries uid = the text of the stored user
\* id, and no uid while none is stored.
CarriesUserId ==
    LET q == last'.query_vars[1]
    IN  IF self'.user_id = None
        THEN "uid" \notin DOMAIN q
        ELSE /\ "uid" \in DOMAIN q
             /\ q["uid"] = UserIdText(self'.user_id[1])

\* C21 as stated: set_user_id refuses a value that is neither a str nor an
\* int, leaving the stored user id, and accepts a str or an int; every
\* mapping built afterwards carries uid = the text of the stored value, and
\* no uid key while no user id is stored.
C21_UserIdRoundTrip ==
    [][/\ SetUserIdChecks
       /\ last'.query_vars # None => CarriesUserId]_vars

\* C21 as amended: the same, for mappings built while no custom dimension
\* named uid is set.
C21_UserIdRoundTripUnlessDimension ==
    [][/\ SetUserIdChecks
       /\ (last'.query_vars # None /\ "uid" \notin DOMAIN self'.dimensions)
            => CarriesUserId]_vars

\* C21's case: a request was sent carrying uid = "42" for the int user id
\* 42, after a set_user_id call or more.
C21_SentWithIntUserId ==
    /\ last.request # None
    /\ self.user_id = Some(<<"int", 42>>)
    /\ "uid" \in DOMAIN last.request[1].params
    /\ last.request[1].params["uid"] = "42"

OptionalKeys ==
    {"referer", "action_name", "h", "m", "s", "cip", "token_auth", "cookie",
     "res", "debug"}

\* None of the setters of an optional key has been called on tracker S.
NoOptionalSet(S) ==
    /\ ~S.has_referer
    /\ S.action_name = None
    /\ S.local_time = None
    /\ S.ip = None
    /\ S.token_auth = None
    /\ ~S.has_cookies
    /\ S.width = None
    /\ S.height = None
    /\ ~S.debug

\* Key is in mapping q exactly when `set` holds.
KeyIff(q, key, set) == (key \in DOMAIN q) <=> set

\* C22: every built mapping carries referer, action_name, h/m/s, cip,
\* token_auth, cookie, res and debug each exactly when its field is set
\* (res: both width and height; debug: set to true) and never otherwise;
\* and execute on a tracker none of whose optional setters was called builds
\* a mapping, which carries none of these keys.
C22_OptionalKeysIffSet ==
    /\ last.query_vars # None
         => /\ KeyIff(Q, "referer", self.has_referer /\ self.referer # None)
            /\ KeyIff(Q, "action_name", self.action_name # None)
            /\ KeyIff(Q, "h", self.local_time # None)
            /\ KeyIff(Q, "m", self.local_time # None)
            /\ KeyIff(Q, "s", self.local_time # None)
            /\ KeyIff(Q, "cip", self.ip # None)
            /\ KeyIff(Q, "token_auth", self.token_auth # None)
            /\ KeyIff(Q, "cookie", self.has_cookies)
            /\ KeyIff(Q, "res", self.width # None /\ self.height # None)
            /\ KeyIff(Q, "debug", self.debug)
    /\ (last.op = "execute" /\ NoOptionalSet(self))
         => /\ last.query_vars # None
            /\ OptionalKeys \cap DOMAIN Q = {}

\* The mapping built by the call carries send_image = "1" when the flag of
\* the tracker is true and "0" when it is false.
CarriesSendImage ==
    LET q == last'.query_vars[1]
    IN  /\ "send_image" \in DOMAIN q
        /\ q["send_image"] = IF self'.send_image THEN "1" ELSE "0"

\* set_send_image_response(flag) stores the flag.
SetSendImageStores ==
    last'.op = "set_send_image_response"
        => self'.send_image = last'.args[1]

OnlySlotWritten(m1, m2, id, pair) ==
    /\ DOMAIN m2 = (DOMAIN m1) \cup {id}
    /\ m2[id] = pair
    /\ \A k \in (DOMAIN m1) \ {id} : m2[k] = m1[k]

\* Tracker S2 differs from S1 in the custom variable mapping of the scope at
\* most.
OnlyScopeChanged(S1, S2, scope) ==
    CASE scope = "visit" ->
           S2 = [S1 EXCEPT !.visitor_custom_var = S2.visitor_custom_var]
      [] scope = "page" ->
           S2 = [S1 EXCEPT !.page_custom_var = S2.page_custom_var]
      [] scope = "event" ->
           S2 = [S1 EXCEPT !.event_custom_var = S2.event_custom_var]

\* C24: a set_custom_variable(id, name, value, scope) call that returns has
\* written (name, value) to slot id of the mapping of that scope and changed
\* nothing else, neither another slot of the scope nor another scope; and
\* get_custom_variable(id, scope) on a valid scope changes nothing and
\* returns the pair the slot holds, or None when the slot holds none.
C24_SlotsIndependent ==
    [][/\ (last'.op = "set_custom_variable" /\ last'.raised = NoExc)
            => LET scope == last'.args[4]
                   id == last'.args[1][2]
               IN  /\ scope \in {"visit", "page", "event"}
                   /\ OnlyScopeChanged(self, self', scope)
                   /\ OnlySlotWritten(CustomVarOf(self, scope),
                                      CustomVarOf(self', scope), id,
                                      <<last'.args[2], last'.args[3]>>)
       /\ (/\ last'.op = "get_custom_variable"
           /\ last'.args[2] \in {"visit", "page", "event"})
            => LET m == CustomVarOf(self, last'.args[2])
                   id == last'.args[1]
               IN  /\ self' = self
                   /\ last'.raised = NoExc
                   /\ last'.ret =
                        IF id[1] = "int" /\ id[2] \in DOMAIN m
                        THEN Some(m[id[2]]) ELSE Some(None)
      ]_vars

\* C24's case: get_custom_variable(2, page) returned the pair written last
\* to slot 2, on a tracker whose page slot 1 holds another pair.
C24_ReadSecondSlot ==
    /\ last.op = "get_custom_variable"
    /\ last.args = <<<<"int", 2>>, "page">>
    /\ last.ret = Some(<<"size", "xl">>)
    /\ DOMAIN self.page_custom_var = {1, 2}
    /\ self.page_custom_var[1] = <<"color", "red">>

ShortCodes == {"fla", "java", "dir", "qt", "realp", "pdf", "wma", "gears", "ag"}

\* C25: every key of the plugin mapping is the short code of a whitelisted
\* plugin, whatever set_plugins calls were made, failing ones included, and
\* every built mapping carries each plugin entry under its short code.
C25_PluginKeysWhitelisted ==
    /\ DOMAIN self.plugins \subseteq ShortCodes
    /\ last.query_vars # None
         => \A k \in DOMAIN self.plugins :
               k \in DOMAIN Q /\ Q[k] = self.plugins[k]

\* C25's case: execute built a mapping carrying fla and java, the plugins a
\* tracker holds after set_plugins calls.
C25_BuiltWithTwoPlugins ==
    /\ last.op = "execute"
    /\ last.query_vars # None
    /\ DOMAIN self.plugins = {"fla", "java"}
    /\ Q["fla"] = 6
    /\ Q["java"] = 1

\* C26: on a configured tracker, the request of an e-commerce call carries as
\* ec_items the list of the item tuples added since the e-commerce request
\* before, one per distinct SKU with the last add of a SKU winning, and no
\* ec_items when none was added.
C26_EcItemsSinceLastRequest ==
    [][/\ last'.op = "add_ecommerce_item"
            => self'.ecommerce_items
                 = DictSet(self.ecommerce_items, last'.args[1], last'.args)
       /\ (last'.op \in EcommerceOps /\ Configured(self))
            => /\ last'.request # None
               /\ IF Len(self.ecommerce_items) = 0
                  THEN "ec_items" \notin DOMAIN last'.request[1].params
                  ELSE /\ "ec_items" \in DOMAIN last'.request[1].params
                       /\ last'.request[1].params["ec_items"]
                            = JsonDumpsList(DictValues(self.ecommerce_items))
      ]_vars

\* C27: a tracking operation that fails with a configuration or an
\* invalid-parameter error leaves the tracker as it was, and an e-commerce
\* call made while the API URL is unset keeps the item collection.
C27_FailedTrackingKeepsContext ==
    [][/\ (/\ last'.op \in TrackingOps
           /\ last'.raised \in {"ConfigurationError", "InvalidParameter"})
            => self' = self
       /\ (last'.op \in EcommerceOps /\ self.api_url = None)
            => self'.ecommerce_items = self.ecommerce_items
      ]_vars

\* C28: the stored revenue is never cleared: set_track_goal called without a
\* revenue stores the new goal id and keeps the revenue stored before, and
\* every mapping built on a tracker holding a goal id and a revenue carries
\* both, as idgoal and revenue.
C28_RevenueNeverCleared ==
    [][/\ self.revenue # None => self'.revenue # None
       /\ (last'.op = "set_track_goal" /\ last'.args[2] = None)
            => /\ self'.id_goal = Some(last'.args[1])
               /\ self'.revenue = self.revenue
       /\ (last'.query_vars # None /\ self'.id_goal # None
              /\ self'.revenue # None)
            => /\ {"idgoal", "revenue"} \subseteq DOMAIN last'.query_vars[1]
               /\ last'.query_vars[1]["idgoal"] = self'.id_goal[1]
               /\ last'.query_vars[1]["revenue"] = self'.revenue[1]
      ]_vars

\* C28's case: set_track_goal(2) was called without a revenue on a tracker
\* holding the revenue 50 of an earlier call.
C28_GoalSetAgainWithoutRevenue ==
    /\ last.op = "set_track_goal"
    /\ last.args = <<2, None>>
    /\ self.id_goal = Some(2)
    /\ self.revenue = Some(50)

\* C29: on a configured tracker, also one holding a goal id and a revenue,
\* an e-commerce order or cart update issues a request whose idgoal is 0 and
\* whose revenue is the grand total of the call, and leaves the stored goal
\* id and revenue in the tracker.
C29_EcommerceGoalOverStoredGoal ==
    [][(last'.op \in EcommerceOps /\ Configured(self))
         => /\ self'.id_goal = self.id_goal
            /\ self'.revenue = self.revenue
            /\ last'.request # None
            /\ {"idgoal", "revenue"}
                 \subseteq DOMAIN last'.request[1].params
            /\ last'.request[1].params["idgoal"] = 0
            /\ last'.request[1].params["revenue"]
                 = IF last'.op = "do_track_ecommerce_order"
                   THEN last'.args[2] ELSE last'.args[1]
      ]_vars

====
